---- MODULE Spec2Model ----
(***************************************************************************)
(* Weekly tournament registration (src/src/app/.../actions.ts).            *)
(*                                                                         *)
(* The persisted JSON documents are the state: registration-state.json,    *)
(* registrations.json, winners.json and archive/registrations-<date>.json. *)
(* Every exported server action is one atomic step; all clock reads of one *)
(* call return the same instant (calls do not overlap in Spec).            *)
(*                                                                         *)
(* Time is counted in minutes.  Instant 0 is a Monday 00:00 UTC.  An ISO   *)
(* timestamp (Date.toISOString / new Date(iso)) is the UTC instant itself; *)
(* the server's zone offset tz turns it into the local fields getDay,      *)
(* getHours, getMinutes that the code reads.                               *)
(***************************************************************************)
EXTENDS Integers, Sequences, FiniteSets, TLC

VARIABLES
    now,          \* the clock: what new Date() returns (UTC minutes)
    tz,           \* the server's zone offset in minutes (process.env TZ)
    stateFile,    \* registration-state.json : Missing or <<RegistrationState>>
    regFile,      \* registrations.json      : Missing or <<WeeklyData>>
    archive,      \* archive/registrations-<date>.json : date |-> WeeklyData
    winnersFile,  \* winners.json            : Missing or <<seq of WeeklyWinner>>
    last,         \* what the last call did and returned to its caller
    calls         \* the registerTeam calls in progress: where each one is and
                  \* the values it holds in its local variables

vars == <<now, tz, stateFile, regFile, archive, winnersFile, last, calls>>

----------------------------------------------------------------------------
(* Bounds of the model *)

\* Weeks 1..MaxWeek are visited by the clock in Spec and SpecWinners.
MaxWeek == 2

\* In Spec at most this many new teams apply in a week.
MaxRoster == 2

\* Weeks 1..MaxCapacityWeek are visited by the clock in SpecCapacity, where new
\* teams keep applying after the roster is full.
MaxCapacityWeek == 1

\* In SpecWinners at most this many new teams apply in a week.
MaxWinnersRoster == 1

\* Zone offsets of the server: UTC and Asia/Kolkata (+05:30).
TZOffsets == {0, 330}

\* Local instants of a week the clock visits in Spec:
\* Monday 00:00, Monday 00:30, Sunday 22:00.
SampleOffsets == {0, 30, (6 * 24 + 22) * 60}

MinutesPerDay == 24 * 60
MinutesPerWeek == 7 * MinutesPerDay

----------------------------------------------------------------------------
(* Date: the local fields of an instant *)

LocalMinutes(t, tzo) == t + tzo

\* Date.getDay(): Sunday is 0, Monday is 1.
getDay(t, tzo) == ((LocalMinutes(t, tzo) \div MinutesPerDay) + 1) % 7

getHours(t, tzo) == (LocalMinutes(t, tzo) % MinutesPerDay) \div 60

getMinutes(t, tzo) == LocalMinutes(t, tzo) % 60

\* Date.toISOString().split('T')[0]: the calendar date of the instant in UTC,
\* counted in days (the YYYY-MM-DD text of a day number is one-to-one).
toISODateString(t) == t \div MinutesPerDay

\* The most recent Monday 00:00 local, as an instant.
getRegistrationWeekStart(t, tzo) ==
    LET currentDay == getDay(t, tzo)
        distanceToMonday == (currentDay + 6) % 7
        localDate == LocalMinutes(t, tzo) \div MinutesPerDay
        monday == (localDate - distanceToMonday) * MinutesPerDay
    IN  monday - tzo

\* The window opens only after Monday 00:30.
isRegistrationWindowOpen_afterHalfPast(t, tzo) ==
    LET day == getDay(t, tzo)
        hours == getHours(t, tzo)
        minutes == getMinutes(t, tzo)
    IN  IF day = 0 /\ hours >= 22 THEN FALSE
        ELSE IF day = 1 /\ (hours = 0 /\ minutes <= 30) THEN FALSE
        ELSE TRUE

\* Closed on Sunday from 22:00 and on Monday before 00:30, local time.
isRegistrationWindowOpen(t, tzo) ==
    LET day == getDay(t, tzo)
        hours == getHours(t, tzo)
        minutes == getMinutes(t, tzo)
    IN  IF day = 0 /\ hours >= 22 THEN FALSE
        ELSE IF day = 1 /\ (hours = 0 /\ minutes < 30) THEN FALSE
        ELSE TRUE

----------------------------------------------------------------------------
(* Files *)

Missing == <<>>
File(doc) == <<doc>>
Doc(f) == f[1]

NoArchive == [d \in {} |-> {}]

\* writeJsonFile(archivePath, data): the file of that date is created or replaced.
WriteArchive(ar, date, data) ==
    [d \in (DOMAIN ar) \cup {date} |-> IF d = date THEN data ELSE ar[d]]

\* archiveWeeklyData: nothing to do for an empty roster; a failed write is
\* logged and swallowed.
archiveWeeklyData(ar, weeklyData, writeFails) ==
    IF Len(weeklyData.teams) = 0 THEN ar
    ELSE LET dateString == toISODateString(weeklyData.registrationWeekStart)
         IN  IF writeFails THEN ar
             ELSE WriteArchive(ar, dateString, weeklyData)

\* The faults one call of manageWeeklyState can meet: a read that throws
\* (EIO, corrupt JSON), a write of either document that throws, the archive
\* write failing.  At most one per call.
MwsFaults == {"none", "read", "writeState", "writeRoster", "archive"}

NoDoc == [none |-> TRUE]

Threw(sf, rf, ar) ==
    [threw |-> TRUE, sf |-> sf, rf |-> rf, ar |-> ar, state |-> NoDoc, weeklyData |-> NoDoc]

Returned(sf, rf, ar, state, weeklyData) ==
    [threw |-> FALSE, sf |-> sf, rf |-> rf, ar |-> ar, state |-> state, weeklyData |-> weeklyData]

EmptyWeek(weekStart) ==
    [state |-> [registrationWeekStart |-> weekStart, registeredTeamsCount |-> 0],
     weeklyData |-> [registrationWeekStart |-> weekStart, teams |-> <<>>]]

\* Only the state is written for the empty current week.
ResetWeek_stateOnly(sf, rf, ar, weekStart, f) ==
    LET new == EmptyWeek(weekStart)
    IN  IF f = "writeState" THEN Threw(sf, rf, ar)
        ELSE Returned(File(new.state), rf, ar, new.state, new.weeklyData)

\* Both documents are written for an empty current week: the state first.
ResetWeek(sf, rf, ar, weekStart, f) ==
    LET new == EmptyWeek(weekStart)
    IN  IF f = "writeState" THEN Threw(sf, rf, ar)
        ELSE IF f = "writeRoster" THEN Threw(File(new.state), rf, ar)
        ELSE Returned(File(new.state), File(new.weeklyData), ar, new.state, new.weeklyData)

\* manageWeeklyState on the files (sf, rf, ar) at instant t under fault f:
\* the files it leaves and what it returns.
manageWeeklyState(sf, rf, ar, t, tzo, f) ==
    LET currentWeekStart == getRegistrationWeekStart(t, tzo)
    IN  IF f = "read" THEN Threw(sf, rf, ar)
        ELSE IF sf = Missing \/ rf = Missing
             THEN ResetWeek(sf, rf, ar, currentWeekStart, f)
        ELSE LET state == Doc(sf)
                 weeklyData == Doc(rf)
                 isNewWeek == state.registrationWeekStart < currentWeekStart
             IN  IF isNewWeek
                 THEN ResetWeek(sf, rf, archiveWeeklyData(ar, weeklyData, f = "archive"),
                                currentWeekStart, f)
                 ELSE IF state.registeredTeamsCount # Len(weeklyData.teams)
                      THEN LET healed == [state EXCEPT !.registeredTeamsCount =
                                                           Len(weeklyData.teams)]
                           IN  IF f = "writeState" THEN Threw(sf, rf, ar)
                               ELSE Returned(File(healed), rf, ar, healed, weeklyData)
                      ELSE Returned(sf, rf, ar, state, weeklyData)

----------------------------------------------------------------------------
(* Text: a string is the sequence of its characters *)

\* The capital letters of the model's texts.
LowerChar(c) ==
    CASE c = "M" -> "m"
      [] c = "R" -> "r"
      [] c = "T" -> "t"
      [] c = "U" -> "u"
      [] c = "X" -> "x"
      [] OTHER -> c

\* String.prototype.toLowerCase
toLowerCase(s) == [i \in 1..Len(s) |-> LowerChar(s[i])]

\* String.prototype.trim: the white space at both ends is dropped.
RECURSIVE trimStart(_)
trimStart(s) == IF s # <<>> /\ s[1] = " " THEN trimStart(Tail(s)) ELSE s

RECURSIVE trimEnd(_)
trimEnd(s) == IF s # <<>> /\ s[Len(s)] = " " THEN trimEnd(SubSeq(s, 1, Len(s) - 1)) ELSE s

trim(s) == trimEnd(trimStart(s))

Digits == <<"0", "1", "2", "3", "4", "5", "6", "7", "8", "9">>
IsDigit(c) == \E i \in 1..Len(Digits) : Digits[i] = c
Tens(k) == Digits[(k \div 10) + 1]
Units(k) == Digits[(k % 10) + 1]

\* crypto.createHash('sha256').update(bytes).digest('hex'): one digest per content.
sha256(bytes) == <<"sha256", bytes>>

----------------------------------------------------------------------------
(* Forms: the k-th team of a roster and the texts it may submit *)

UtrText(k, style) ==
    CASE style = "plain"  -> <<"u", "t", "r", Tens(k), Units(k)>>
      [] style = "upper"  -> <<"U", "T", "R", Tens(k), Units(k)>>
      [] style = "padded" -> <<" ", "u", "t", "r", Tens(k), Units(k), " ">>
      [] style = "short"  -> <<"u", Tens(k), Units(k)>>

EmailText(k, style) ==
    CASE style = "plain"  -> <<"m", Tens(k), Units(k), "@", "x", ".", "t">>
      [] style = "upper"  -> <<"M", Tens(k), Units(k), "@", "X", ".", "T">>
      [] style = "padded" -> <<" ", "m", Tens(k), Units(k), "@", "x", ".", "t">>

PhoneText(k) == <<"9", "8", "7", "6", "5", "4", "3", "2", Tens(k), Units(k)>>

TeamNameText(k) == <<"T", Tens(k), Units(k)>>

Screenshot(k) == [bytes |-> k, size |-> 2048, type |-> "image/png"]

FourPlayers(level) == [i \in 1..4 |-> [id |-> <<"p", Digits[i + 1]>>, level |-> level]]

UtrStyles == {"plain", "upper", "padded"}
EmailStyles == {"plain", "upper"}

\* The style in which the k-th team of a roster wrote its own texts.
OwnUtrStyle(k) == IF k % 3 = 1 THEN "plain" ELSE IF k % 3 = 2 THEN "upper" ELSE "padded"
OwnEmailStyle(k) == IF k % 2 = 1 THEN "plain" ELSE "upper"

Form(name, u, us, e, es, p, shot) ==
    [teamName |-> TeamNameText(name), players |-> FourPlayers(60),
     contactEmail |-> EmailText(e, es), contactPhone |-> PhoneText(p),
     utrNumber |-> UtrText(u, us), screenshot |-> Screenshot(shot)]

OwnForm(k) == Form(k, k, OwnUtrStyle(k), k, OwnEmailStyle(k), k, k)

\* The forms submitted against a roster of n teams, each named by a triple
\* <<kind, j, style>>: the next new team ("fresh"); a form that repeats one
\* value of team j, the first or the last of the roster, in some spelling,
\* with everything else new ("utr", "email", "phone", "shot"); the whole form
\* of team j sent again ("again"); malformed forms ("bad").
FreshForms(n) == {<<"fresh", n + 1, "plain">>}

RepeatForms(n) ==
    LET old == {1, n} \cap (1..n)
    IN  ({"utr"} \X old \X UtrStyles) \cup ({"email"} \X old \X EmailStyles)
        \cup ({"phone", "shot", "again"} \X old \X {"plain"})

BadForms(n) == {"bad"} \X {n + 1} \X {"level", "utr", "email", "type"}

FormOf(d, n) ==
    LET k == n + 1
        j == d[2]
        s == d[3]
    IN  CASE d[1] = "fresh" -> OwnForm(k)
          [] d[1] = "utr"   -> Form(k, j, s, k, "plain", k, k)
          [] d[1] = "email" -> Form(k, k, "plain", j, s, k, k)
          [] d[1] = "phone" -> Form(k, k, "plain", k, "plain", j, k)
          [] d[1] = "shot"  -> Form(k, k, "plain", k, "plain", k, j)
          [] d[1] = "again" -> OwnForm(j)
          [] d[1] = "bad" /\ s = "level" -> [OwnForm(k) EXCEPT !.players = FourPlayers(29)]
          [] d[1] = "bad" /\ s = "utr" -> [OwnForm(k) EXCEPT !.utrNumber = UtrText(k, "short")]
          [] d[1] = "bad" /\ s = "email" ->
                 [OwnForm(k) EXCEPT !.contactEmail = EmailText(k, "padded")]
          [] d[1] = "bad" /\ s = "type" ->
                 [OwnForm(k) EXCEPT !.screenshot.type = "application/pdf"]

----------------------------------------------------------------------------
(* Validation: registrationSchema *)

MAX_FILE_SIZE == 10 * 1024 * 1024
ACCEPTED_IMAGE_TYPES == {"image/jpeg", "image/jpg", "image/png", "image/webp"}

\* z.string().email(): no white space, one "@" after a local part, a dot
\* inside the domain.
IsEmail(s) ==
    /\ \A i \in 1..Len(s) : s[i] # " "
    /\ Cardinality({i \in 1..Len(s) : s[i] = "@"}) = 1
    /\ LET at == CHOOSE i \in 1..Len(s) : s[i] = "@"
       IN  /\ at > 1
           /\ \E i \in (at + 2)..(Len(s) - 1) : s[i] = "."

playerSchema(p) ==
    /\ Len(p.id) >= 1 /\ Len(p.id) <= 30
    /\ p.level >= 30 /\ p.level <= 100

\* The first field that fails, or "ok".
registrationSchema(form) ==
    IF ~(Len(form.teamName) >= 1 /\ Len(form.teamName) <= 30) THEN "teamName"
    ELSE IF ~(Len(form.players) = 4 /\ \A i \in 1..Len(form.players) : playerSchema(form.players[i]))
         THEN "players"
    ELSE IF ~IsEmail(form.contactEmail) THEN "contactEmail"
    ELSE IF ~(Len(form.contactPhone) = 10 /\ \A i \in 1..10 : IsDigit(form.contactPhone[i]))
         THEN "contactPhone"
    ELSE IF ~(Len(form.utrNumber) >= 5 /\ Len(form.utrNumber) <= 30) THEN "utrNumber"
    ELSE IF ~(form.screenshot.size > 0 /\ form.screenshot.size <= MAX_FILE_SIZE
              /\ form.screenshot.type \in ACCEPTED_IMAGE_TYPES) THEN "screenshot"
    ELSE "ok"

----------------------------------------------------------------------------
(* Duplicate data check within the week's roster *)

SameUtr(team, utrNumber) ==
    toLowerCase(trim(team.utrNumber)) = toLowerCase(trim(utrNumber))

SameEmail(team, contactEmail) ==
    toLowerCase(trim(team.contactEmail)) = toLowerCase(trim(contactEmail))

SamePhone(team, contactPhone) == trim(team.contactPhone) = trim(contactPhone)

SameScreenshot(team, screenshotHash) == team.screenshotHash = screenshotHash

\* The roster is searched for the UTR, the email and the phone only.
duplicateCheck_textOnly(teams, form, screenshotHash) ==
    IF \E i \in 1..Len(teams) : SameUtr(teams[i], form.utrNumber) THEN "dupUtr"
    ELSE IF \E i \in 1..Len(teams) : SameEmail(teams[i], form.contactEmail) THEN "dupEmail"
    ELSE IF \E i \in 1..Len(teams) : SamePhone(teams[i], form.contactPhone) THEN "dupPhone"
    ELSE "ok"

\* The first check that finds the value in the roster, or "ok".
duplicateCheck(teams, form, screenshotHash) ==
    IF \E i \in 1..Len(teams) : SameUtr(teams[i], form.utrNumber) THEN "dupUtr"
    ELSE IF \E i \in 1..Len(teams) : SameEmail(teams[i], form.contactEmail) THEN "dupEmail"
    ELSE IF \E i \in 1..Len(teams) : SamePhone(teams[i], form.contactPhone) THEN "dupPhone"
    ELSE IF \E i \in 1..Len(teams) : SameScreenshot(teams[i], screenshotHash) THEN "dupShot"
    ELSE "ok"

\* The faults of a set that the call would meet on these files: a fault at a
\* read or write the call does not make is no fault.
MwsFaultsMet(faults, sf, rf, ar, t, tzo) ==
    {f \in faults : f = "none" \/ manageWeeklyState(sf, rf, ar, t, tzo, f)
                                     # manageWeeklyState(sf, rf, ar, t, tzo, "none")}

----------------------------------------------------------------------------
(* What a call reports *)

NoRet == [none |-> TRUE]

\* op: the call; result: what the caller got ("threw": an exception);
\* exception: the step that threw inside the call, if one did; the other
\* fields: what the call read from its caller and its collaborators, and what
\* it did to them ("none": not reached).
Report(op, result) ==
    [op |-> op, result |-> result, exception |-> "none", error |-> "",
     form |-> NoRet, adapter |-> "none", verdict |-> NoRet, upload |-> "none",
     adminMail |-> "none", userMail |-> "none", winnerMails |-> <<>>,
     history |-> NoRet, ret |-> NoRet]

Files(sf, rf, ar) == [sf |-> sf, rf |-> rf, ar |-> ar]

CommitAll(m, wf, rec) ==
    /\ stateFile' = m.sf
    /\ regFile' = m.rf
    /\ archive' = m.ar
    /\ winnersFile' = wf
    /\ last' = rec
    /\ UNCHANGED <<now, tz, calls>>

Commit(m, rec) == CommitAll(m, winnersFile, rec)

----------------------------------------------------------------------------
(* The clock *)

SampleInstants(weeks, tzo) ==
    {w * MinutesPerWeek + o - tzo : w \in 1..weeks, o \in SampleOffsets}

\* Time passes between two calls.
TickTo(instants) ==
    /\ \E t \in instants : t > now /\ now' = t
    /\ last' = Report("tick", "ok")
    /\ UNCHANGED <<tz, stateFile, regFile, archive, winnersFile, calls>>

Tick == TickTo(SampleInstants(MaxWeek, tz))

TickCapacity == TickTo(SampleInstants(MaxCapacityWeek, tz))

\* One instant in each week, with the window open.
OpenInstants(weeks, tzo) == {w * MinutesPerWeek + 30 - tzo : w \in 1..weeks}

TickWinners == TickTo(OpenInstants(MaxWeek, tz))

----------------------------------------------------------------------------
(* The roster queries getWeeklyRegistrations, getWeeklyRegistrationsForAdmin
   and getTeamByUTR: manageWeeklyState, whose exception reaches the caller. *)

ManageWeeklyState ==
    \E f \in MwsFaultsMet(MwsFaults, stateFile, regFile, archive, now, tz) :
        LET m == manageWeeklyState(stateFile, regFile, archive, now, tz, f)
        IN  Commit(m, IF m.threw
                      THEN [Report("manageWeeklyState", "threw") EXCEPT !.exception = f]
                      ELSE [Report("manageWeeklyState", "ok") EXCEPT
                               !.ret = [state |-> m.state, weeklyData |-> m.weeklyData]])

----------------------------------------------------------------------------
(* A persisted document is no longer there: the next readJsonFile of it meets
   ENOENT and returns null. *)

DocumentGoesMissing ==
    /\ \/ stateFile # Missing /\ stateFile' = Missing /\ regFile' = regFile
       \/ regFile # Missing /\ regFile' = Missing /\ stateFile' = stateFile
    /\ last' = Report("missing", "ok")
    /\ UNCHANGED <<now, tz, archive, winnersFile, calls>>

----------------------------------------------------------------------------
(* getRegistrationStatus *)

totalSlots == 12

\* Slots count as available while the counter has not passed the capacity.
RegistrationStatus_upToCapacity(state, t, tzo) ==
    LET isWindowOpen == isRegistrationWindowOpen(t, tzo)
        areSlotsAvailable == state.registeredTeamsCount <= totalSlots
    IN  [slotsFilled |-> state.registeredTeamsCount,
         totalSlots |-> totalSlots,
         isOpen |-> isWindowOpen /\ areSlotsAvailable,
         weekStart |-> state.registrationWeekStart]

\* The status computed from the state that manageWeeklyState returned.
RegistrationStatus(state, t, tzo) ==
    LET isWindowOpen == isRegistrationWindowOpen(t, tzo)
        areSlotsAvailable == state.registeredTeamsCount < totalSlots
    IN  [slotsFilled |-> state.registeredTeamsCount,
         totalSlots |-> totalSlots,
         isOpen |-> isWindowOpen /\ areSlotsAvailable,
         weekStart |-> state.registrationWeekStart]

\* getRegistrationStatus on the files: the files it leaves and the status.
getRegistrationStatus(sf, rf, ar, t, tzo, f) ==
    LET m == manageWeeklyState(sf, rf, ar, t, tzo, f)
    IN  [threw |-> m.threw, sf |-> m.sf, rf |-> m.rf, ar |-> m.ar,
         status |-> IF m.threw THEN NoDoc ELSE RegistrationStatus(m.state, t, tzo)]

GetRegistrationStatus ==
    \E f \in MwsFaultsMet(MwsFaults, stateFile, regFile, archive, now, tz) :
        LET s == getRegistrationStatus(stateFile, regFile, archive, now, tz, f)
        IN  Commit(s, IF s.threw
                      THEN [Report("getRegistrationStatus", "threw") EXCEPT !.exception = f]
                      ELSE [Report("getRegistrationStatus", "ok") EXCEPT !.ret = s.status])

----------------------------------------------------------------------------
(* The collaborators of registerTeam *)

Unavailable == "AI verification service is currently unavailable. Please try again later."

\* What verifyUtrFromScreenshot can do in the week starting at weekStart:
\* throw, or return a verdict { isUtrMatch, reason?, transactionDate? } (an
\* absent value is the empty sequence).
AdapterOutcomes(weekStart) ==
    {[threw |-> TRUE, out |-> NoDoc]}
    \cup {[threw |-> FALSE,
           out |-> [isUtrMatch |-> FALSE, reason |-> "UTR not found in screenshot",
                    transactionDate |-> <<>>]]}
    \cup {[threw |-> FALSE,
           out |-> [isUtrMatch |-> TRUE, reason |-> "", transactionDate |-> d]] :
          d \in {<<>>, <<weekStart - 1>>, <<weekStart>>}}

NominalAdapterOutcomes(weekStart) ==
    {[threw |-> FALSE,
      out |-> [isUtrMatch |-> TRUE, reason |-> "", transactionDate |-> <<weekStart>>]]}

\* An adapter that throws counts as a match.
runAIVerification_failOpen(outcome) ==
    IF outcome.threw
    THEN [isUtrMatch |-> TRUE, reason |-> Unavailable, transactionDate |-> <<>>]
    ELSE outcome.out

\* runAIVerification: an adapter that throws counts as a verdict of no match.
runAIVerification(outcome) ==
    IF outcome.threw
    THEN [isUtrMatch |-> FALSE, reason |-> Unavailable, transactionDate |-> <<>>]
    ELSE outcome.out

\* Any transaction date will do.
dateCheck_presentOnly(verificationResult, state) ==
    IF verificationResult.transactionDate = <<>> THEN "noDate" ELSE "ok"

\* Step 4: the verdict must carry a transaction date, and new Date() of it
\* must not be before the week start of the state.
dateCheck(verificationResult, state) ==
    IF verificationResult.transactionDate = <<>> THEN "noDate"
    ELSE IF verificationResult.transactionDate[1] < state.registrationWeekStart
         THEN "staleDate"
    ELSE "ok"

\* A failed upload reaches the catch of registerTeam.
uploadScreenshot_propagates(outcome) ==
    [threw |-> outcome # "ok", screenshotUrl |-> IF outcome = "ok" THEN <<"url">> ELSE <<>>]

\* Step 6: uploadFileToStorage inside its own try/catch.  The URL, or
\* nothing after a failed upload, which is logged only.
uploadScreenshot(outcome) ==
    [threw |-> FALSE, screenshotUrl |-> IF outcome = "ok" THEN <<"url">> ELSE <<>>]

\* sendNewRegistrationEmail: resend.emails.send inside try/catch; a missing
\* configuration or a failed send is logged only.
sendNewRegistrationEmail(outcome) == [threw |-> FALSE]

\* sendConfirmationEmailToUser: the same.
sendConfirmationEmailToUser(outcome) == [threw |-> FALSE]

\* The exception goes on to the caller.
registerTeamCatch_rethrow(exception) == "threw"

\* The catch of registerTeam: any exception becomes a failure result.
registerTeamCatch(exception) == "serverError"

\* The environments of a call: every fault and outcome, or none of them.
FullEnv ==
    [mws |-> MwsFaults, hash |-> {"ok", "throws"},
     write |-> {"none", "writeRoster", "writeState"},
     adapter |-> "any", forms |-> "any", roster |-> MaxRoster,
     upload |-> {"ok", "failed"}, mail |-> {"sent", "failed"}]

NominalEnv ==
    [mws |-> {"none"}, hash |-> {"ok"}, write |-> {"none"},
     adapter |-> "nominal", forms |-> "fresh", roster |-> MaxRoster,
     upload |-> {"ok"}, mail |-> {"sent"}]

\* Every outcome of the adapter is tried on a new team's form.  A form that
\* repeats a value of the roster comes with a payment the adapter accepts: a
\* refused payment ends the call before the roster is searched.
Adapter(E, d, weekStart) ==
    IF E.adapter = "any" /\ d[1] = "fresh" THEN AdapterOutcomes(weekStart)
    ELSE NominalAdapterOutcomes(weekStart)

\* A new team applies while fewer than E.roster teams are in the roster.
Forms(E, n) ==
    (IF n < E.roster THEN FreshForms(n) ELSE {})
    \cup (IF E.forms = "any" THEN RepeatForms(n) \cup BadForms(n) ELSE {})

----------------------------------------------------------------------------
(* registerTeam *)

Rejected(result, error) ==
    [Report("registerTeam", result) EXCEPT !.error = error]

\* The call ends in its catch after reading seen.
CaughtAfter(seen, exception) ==
    [seen EXCEPT !.result = registerTeamCatch(exception), !.exception = exception,
                 !.error = "An unexpected server error occurred"]

Caught(exception) == CaughtAfter(Report("registerTeam", "pending"), exception)

\* The mails are sent before the documents are written.
SaveRegistration_mailsFirst(E, s, state, weeklyData, form, screenshotHash, seen) ==
    \E up \in E.upload, f3 \in E.write, am \in E.mail, um \in E.mail :
        LET registrationData ==
                [teamName |-> form.teamName, players |-> form.players,
                 contactEmail |-> form.contactEmail, contactPhone |-> form.contactPhone,
                 utrNumber |-> form.utrNumber, screenshotHash |-> screenshotHash,
                 registrationTime |-> now]
            pushed == [weeklyData EXCEPT !.teams = Append(@, registrationData)]
            updatedState == [state EXCEPT !.registeredTeamsCount = Len(pushed.teams)]
            mailed == [seen EXCEPT !.upload = up, !.adminMail = am, !.userMail = um]
        IN  IF f3 = "writeRoster"
            THEN Commit(s, CaughtAfter(mailed, f3))
            ELSE IF f3 = "writeState"
            THEN Commit(Files(s.sf, File(pushed), s.ar), CaughtAfter(mailed, f3))
            ELSE Commit(Files(File(updatedState), File(pushed), s.ar),
                        [mailed EXCEPT !.result = "success", !.ret = registrationData])

\* Steps 6 to 9 for a form that passed every check; seen is what the call has
\* read so far.
SaveRegistration(E, s, state, weeklyData, form, screenshotHash, seen) ==
    \E up \in E.upload, f3 \in E.write :
        LET u == uploadScreenshot(up)
            registrationData ==
                [teamName |-> form.teamName, players |-> form.players,
                 contactEmail |-> form.contactEmail, contactPhone |-> form.contactPhone,
                 utrNumber |-> form.utrNumber, screenshotHash |-> screenshotHash,
                 registrationTime |-> now]
            pushed == [weeklyData EXCEPT !.teams = Append(@, registrationData)]
            updatedState == [state EXCEPT !.registeredTeamsCount = Len(pushed.teams)]
            uploaded == [seen EXCEPT !.upload = up]
        IN  IF u.threw
            THEN Commit(s, CaughtAfter(uploaded, "upload"))
            ELSE IF f3 = "writeRoster"
            THEN Commit(s, CaughtAfter(uploaded, f3))
            ELSE IF f3 = "writeState"
            THEN Commit(Files(s.sf, File(pushed), s.ar),
                        CaughtAfter(uploaded, f3))
            ELSE \E am \in E.mail, um \in E.mail :
                    LET a == sendNewRegistrationEmail(am)
                        c == sendConfirmationEmailToUser(um)
                        files == Files(File(updatedState), File(pushed), s.ar)
                        mailed == [uploaded EXCEPT !.adminMail = am, !.userMail = um]
                    IN  IF a.threw \/ c.threw
                        THEN Commit(files, CaughtAfter(mailed, "mail"))
                        ELSE Commit(files, [mailed EXCEPT !.result = "success",
                                                          !.ret = registrationData])

\* Steps 3 to 5 for a valid form: payment verification, date, duplicates.
VerifyRegistration(E, s, state, weeklyData, d, form) ==
    \E outcome \in Adapter(E, d, state.registrationWeekStart) :
    \E v \in {runAIVerification(outcome)} :
        LET seen == [Report("registerTeam", "pending") EXCEPT
                        !.form = form, !.verdict = v,
                        !.adapter = IF outcome.threw THEN "threw" ELSE "returned"]
        IN  IF ~v.isUtrMatch
            THEN Commit(s, [seen EXCEPT !.result = "verifyFailed", !.error = v.reason])
            ELSE IF dateCheck(v, state) # "ok"
            THEN Commit(s, [seen EXCEPT !.result = dateCheck(v, state),
                                        !.error = "transaction date"])
            ELSE \E h \in E.hash :
                    IF h = "throws"
                    THEN Commit(s, CaughtAfter(seen, "hash"))
                    ELSE \E screenshotHash \in {sha256(form.screenshot.bytes)} :
                         \E dup \in {duplicateCheck(weeklyData.teams, form, screenshotHash)} :
                             IF dup # "ok"
                             THEN Commit(s, [seen EXCEPT !.result = dup,
                                                         !.error = "already used this week"])
                             ELSE SaveRegistration(E, s, state, weeklyData, form,
                                                   screenshotHash, seen)

\* registerTeam in environment E.  The state and the roster are those of the
\* first manageWeeklyState; the status is that of getRegistrationStatus.
registerTeam(E) ==
    \E f1 \in MwsFaultsMet(E.mws, stateFile, regFile, archive, now, tz) :
        \E m \in {manageWeeklyState(stateFile, regFile, archive, now, tz, f1)} :
            IF m.threw THEN Commit(m, Caught(f1))
            ELSE \E f2 \in MwsFaultsMet(E.mws, m.sf, m.rf, m.ar, now, tz) :
                    \E s \in {getRegistrationStatus(m.sf, m.rf, m.ar, now, tz, f2)} :
                        IF s.threw THEN Commit(s, Caught(f2))
                        ELSE IF ~s.status.isOpen
                        THEN Commit(s, Rejected("closed", "Registrations are currently closed"))
                        ELSE \E d \in Forms(E, Len(m.weeklyData.teams)) :
                                \E form \in {FormOf(d, Len(m.weeklyData.teams))} :
                                \E bad \in {registrationSchema(form)} :
                                    IF bad # "ok"
                                    THEN Commit(s, [Rejected("invalid", bad) EXCEPT
                                                       !.form = form])
                                    ELSE VerifyRegistration(E, s, m.state, m.weeklyData,
                                                            d, form)

RegisterTeam == registerTeam(FullEnv)

\* New teams keep applying to a full roster.
RegisterTeamToCapacity == registerTeam([FullEnv EXCEPT !.roster = totalSlots + 1])

\* A new team applies; nothing fails.
RegisterTeamNominal == registerTeam([NominalEnv EXCEPT !.roster = MaxWinnersRoster])

\* A new team applies; the files may fail.
RegisterTeamAtAnyMinute == registerTeam([NominalEnv EXCEPT !.mws = MwsFaults])

----------------------------------------------------------------------------
(* processAndEmailWinners *)

\* A mail that is not sent is logged only.
sendWinnerEmail_logsOnly(outcome) == [threw |-> FALSE]

\* sendWinnerEmail: a mail that is not sent (no mail configuration, a send
\* that throws) is an exception.
sendWinnerEmail(outcome) == [threw |-> outcome # "sent"]

WinnerMailOutcomes == {"sent", "failed", "unconfigured"}

\* readWinnersHistory: no file is an empty history.
readWinnersHistory(wf) == IF wf = Missing THEN <<>> ELSE Doc(wf)

\* The new record is put at the head of the history as it is.
saveWinnerRecord_keepAll(allWinners, newWinnerRecord) ==
    <<newWinnerRecord>> \o allWinners

\* The record of the week is dropped from the history and the new record is
\* put at its head.
saveWinnerRecord(allWinners, newWinnerRecord) ==
    LET OtherWeek(w) == w.weekStart # newWinnerRecord.weekStart
    IN  <<newWinnerRecord>> \o SelectSeq(allWinners, OtherWeek)

\* The names of the teams the admin may announce.
WinnerNames == {TeamNameText(1), TeamNameText(2)}

ProcessAndEmailWinners ==
    \E f \in MwsFaultsMet(MwsFaults, stateFile, regFile, archive, now, tz) :
    \E m \in {manageWeeklyState(stateFile, regFile, archive, now, tz, f)} :
        LET rep == Report("processAndEmailWinners", "threw")
        IN  IF m.threw THEN Commit(m, [rep EXCEPT !.exception = f])
            ELSE \E first \in WinnerNames, second \in WinnerNames, o1 \in WinnerMailOutcomes :
                 /\ first # second
                 /\ IF sendWinnerEmail(o1).threw
                    THEN Commit(m, [rep EXCEPT !.exception = "mail", !.winnerMails = <<o1>>])
                    ELSE \E o2 \in WinnerMailOutcomes :
                         IF sendWinnerEmail(o2).threw
                         THEN Commit(m, [rep EXCEPT !.exception = "mail",
                                                    !.winnerMails = <<o1, o2>>])
                         ELSE \E w \in {"none", "readWinners", "writeWinners"} :
                              LET newWinnerRecord ==
                                      [weekStart |-> m.state.registrationWeekStart,
                                       winners |-> <<[rank |-> "1st", teamName |-> first],
                                                     [rank |-> "2nd", teamName |-> second]>>,
                                       totalTeams |-> m.state.registeredTeamsCount]
                                  allWinners == readWinnersHistory(winnersFile)
                              IN  IF w # "none"
                                  THEN Commit(m, [rep EXCEPT !.exception = w,
                                                             !.winnerMails = <<o1, o2>>])
                                  ELSE CommitAll(m,
                                           File(saveWinnerRecord(allWinners, newWinnerRecord)),
                                           [rep EXCEPT !.result = "ok",
                                                       !.winnerMails = <<o1, o2>>,
                                                       !.history = allWinners,
                                                       !.ret = newWinnerRecord])

----------------------------------------------------------------------------
(* registerTeam step by step: every await of the call is a point where the
   clock can advance and another call can run.  No read, write, upload or
   mail fails here.  A call keeps in read the roster it got at line 417. *)

CallIds == {1, 2}

Idle ==
    [pc |-> "idle", state |-> NoDoc, weeklyData |-> NoDoc, read |-> NoDoc,
     form |-> NoRet, screenshotUrl |-> <<>>, result |-> "none", ret |-> NoRet]

\* The new team is put at the end of the roster that is on disk at the time
\* of the push.
pushTeam_ontoDisk(weeklyData, onDisk, registrationData) ==
    [Doc(onDisk) EXCEPT !.teams = Append(@, registrationData)]

\* weeklyData.teams.push(registrationData): the roster the call read at its
\* start with the new team at the end; onDisk is the roster file at the time
\* of the push.
pushTeam(weeklyData, onDisk, registrationData) ==
    [weeklyData EXCEPT !.teams = Append(@, registrationData)]

\* The call goes on with its local variables changed.
Proceed(c, local) ==
    /\ calls' = [calls EXCEPT ![c] = local]
    /\ UNCHANGED <<now, tz, winnersFile, last>>

\* Line 417: const { state, weeklyData } = await manageWeeklyState().
BeginCall(c) ==
    /\ calls[c].pc = "idle"
    /\ LET m == manageWeeklyState(stateFile, regFile, archive, now, tz, "none")
       IN  /\ stateFile' = m.sf
           /\ regFile' = m.rf
           /\ archive' = m.ar
           /\ Proceed(c, [calls[c] EXCEPT !.pc = "status", !.state = m.state,
                                          !.weeklyData = m.weeklyData,
                                          !.read = m.weeklyData])

\* Lines 418-450: getRegistrationStatus, the closed return, and the validation
\* of the form of call c.
CheckStatus(c) ==
    /\ calls[c].pc = "status"
    /\ LET s == getRegistrationStatus(stateFile, regFile, archive, now, tz, "none")
           form == OwnForm(c)
       IN  /\ stateFile' = s.sf
           /\ regFile' = s.rf
           /\ archive' = s.ar
           /\ IF ~s.status.isOpen
              THEN Proceed(c, [calls[c] EXCEPT !.pc = "done", !.result = "closed"])
              ELSE IF registrationSchema(form) # "ok"
              THEN Proceed(c, [calls[c] EXCEPT !.pc = "done", !.result = "invalid"])
              ELSE Proceed(c, [calls[c] EXCEPT !.pc = "verify", !.form = form])

\* Lines 453-502: the adapter returns a match dated at the start of the week
\* the call began in; date check, duplicate check and upload follow.
VerifyAndUpload(c) ==
    /\ calls[c].pc = "verify"
    /\ UNCHANGED <<stateFile, regFile, archive>>
    /\ \E outcome \in NominalAdapterOutcomes(calls[c].state.registrationWeekStart) :
          LET v == runAIVerification(outcome)
              form == calls[c].form
              screenshotHash == sha256(form.screenshot.bytes)
              dup == duplicateCheck(calls[c].weeklyData.teams, form, screenshotHash)
          IN  IF ~v.isUtrMatch
              THEN Proceed(c, [calls[c] EXCEPT !.pc = "done", !.result = "verifyFailed"])
              ELSE IF dateCheck(v, calls[c].state) # "ok"
              THEN Proceed(c, [calls[c] EXCEPT !.pc = "done",
                                              !.result = dateCheck(v, calls[c].state)])
              ELSE IF dup # "ok"
              THEN Proceed(c, [calls[c] EXCEPT !.pc = "done", !.result = dup])
              ELSE Proceed(c, [calls[c] EXCEPT
                                  !.pc = "save",
                                  !.screenshotUrl = uploadScreenshot("ok").screenshotUrl])

\* Lines 504-520: registrationData with the time of this step, the push onto
\* the roster the call holds, and the write of the roster.
SaveRoster(c) ==
    /\ calls[c].pc = "save"
    /\ LET form == calls[c].form
           registrationData ==
               [teamName |-> form.teamName, players |-> form.players,
                contactEmail |-> form.contactEmail, contactPhone |-> form.contactPhone,
                utrNumber |-> form.utrNumber,
                screenshotHash |-> sha256(form.screenshot.bytes),
                registrationTime |-> now]
           pushed == pushTeam(calls[c].weeklyData, regFile, registrationData)
       IN  /\ regFile' = File(pushed)
           /\ UNCHANGED <<stateFile, archive>>
           /\ Proceed(c, [calls[c] EXCEPT !.pc = "saveState", !.weeklyData = pushed,
                                          !.ret = registrationData])

\* Lines 516-536: the write of the state with the new count, the mails and
\* the success return.
SaveState(c) ==
    /\ calls[c].pc = "saveState"
    /\ LET updatedState ==
               [calls[c].state EXCEPT
                   !.registeredTeamsCount = Len(calls[c].weeklyData.teams)]
       IN  /\ stateFile' = File(updatedState)
           /\ UNCHANGED <<regFile, archive>>
           /\ Proceed(c, [calls[c] EXCEPT !.pc = "done", !.result = "success"])

----------------------------------------------------------------------------
(* Specifications *)

Init ==
    /\ tz \in TZOffsets
    /\ now = MinutesPerWeek - tz
    /\ stateFile = Missing
    /\ regFile = Missing
    /\ archive = NoArchive
    /\ winnersFile = Missing
    /\ last = Report("init", "ok")
    /\ calls = [c \in CallIds |-> Idle]

\* The calls that read and write the week's documents, one at a time.
Next ==
    \/ Tick
    \/ ManageWeeklyState
    \/ GetRegistrationStatus
    \/ RegisterTeam

Spec == Init /\ [][Next]_vars

\* Rosters fill to capacity and beyond.
NextCapacity ==
    \/ TickCapacity
    \/ GetRegistrationStatus
    \/ RegisterTeamToCapacity

SpecCapacity == Init /\ [][NextCapacity]_vars

\* One call of registerTeam at every minute of a week.
InitWindow ==
    /\ tz \in TZOffsets
    /\ now \in {MinutesPerWeek + k - tz : k \in 0..(MinutesPerWeek - 1)}
    /\ stateFile = Missing
    /\ regFile = Missing
    /\ archive = NoArchive
    /\ winnersFile = Missing
    /\ last = Report("init", "ok")
    /\ calls = [c \in CallIds |-> Idle]

NextWindow == RegisterTeamAtAnyMinute

SpecWindow == InitWindow /\ [][NextWindow]_vars

\* The winners of each week are announced, once or again.
NextWinners ==
    \/ TickWinners
    \/ RegisterTeamNominal
    \/ ProcessAndEmailWinners

SpecWinners == Init /\ [][NextWinners]_vars

\* The calls one at a time, between documents that go missing.
NextMissing ==
    \/ Tick
    \/ DocumentGoesMissing
    \/ ManageWeeklyState
    \/ GetRegistrationStatus
    \/ RegisterTeam

SpecMissing == Init /\ [][NextMissing]_vars

\* Two calls of registerTeam whose steps interleave, while the clock advances.
NextSteps ==
    \/ Tick
    \/ \E c \in CallIds :
          \/ BeginCall(c)
          \/ CheckStatus(c)
          \/ VerifyAndUpload(c)
          \/ SaveRoster(c)
          \/ SaveState(c)

SpecSteps == Init /\ [][NextSteps]_vars

----------------------------------------------------------------------------
(* The vocabulary of the properties *)

Calls == {"manageWeeklyState", "getRegistrationStatus", "registerTeam",
          "processAndEmailWinners"}

\* The last step was a call that returned to its caller.
Completed == last.op \in Calls /\ last.result # "threw"

LiveRoster == IF regFile = Missing THEN <<>> ELSE Doc(regFile).teams

\* Minutes since Monday 00:00 on the server's local clock.
LocalMinuteOfWeek == (now + tz) % MinutesPerWeek

\* [Monday 00:30, Sunday 22:00) in local time.
InWindow == LocalMinuteOfWeek >= 30 /\ LocalMinuteOfWeek < (6 * 24 + 22) * 60

\* The instant of the most recent local Monday 00:00.
CurrentWeekStart == now - LocalMinuteOfWeek

\* The local calendar day of an instant, as a day number.
LocalDate(t) == (t + tz) \div MinutesPerDay

\* The roster of the current week as the next call will find it: none when a
\* document is missing or the documents are of an earlier week.
WeekRoster ==
    IF stateFile = Missing \/ regFile = Missing THEN <<>>
    ELSE IF Doc(stateFile).registrationWeekStart < CurrentWeekStart THEN <<>>
    ELSE Doc(regFile).teams

----------------------------------------------------------------------------
(* C1: counter and roster *)

\* C1: after every call that returned, the persisted registeredTeamsCount is
\* the length of the persisted roster.
C1_CounterIsRosterLength ==
    (Completed /\ stateFile # Missing /\ regFile # Missing)
        => Doc(stateFile).registeredTeamsCount = Len(Doc(regFile).teams)

----------------------------------------------------------------------------
(* C2: capacity *)

\* C2: a registerTeam call that finds twelve teams in the week's roster is
\* rejected and leaves the roster file as it was, whether the window is open
\* or not; and the roster never holds more than twelve teams.
C2_TwelveTeamsAtMost ==
    [][ /\ Len(LiveRoster') <= 12
        /\ (last'.op = "registerTeam" /\ Len(WeekRoster) >= 12)
              => /\ last'.result \in {"closed", "serverError"}
                 /\ regFile' = regFile ]_vars

\* A thirteenth team was turned away from a full roster while the window was open.
C2_Witness ==
    /\ last.op = "registerTeam"
    /\ last.result = "closed"
    /\ InWindow
    /\ Len(LiveRoster) = 12

----------------------------------------------------------------------------
(* C3: the registration window *)

\* C3: isRegistrationWindowOpen is true exactly on [Monday 00:30, Sunday 22:00)
\* of the local week, and a registerTeam call made while it is false is
\* rejected as closed (or ends in the catch), whereas a call made inside the
\* window with free slots is not rejected as closed.
C3_WindowIsMondayHalfPastToSundayTen ==
    /\ isRegistrationWindowOpen(now, tz) <=> InWindow
    /\ (last.op = "registerTeam" /\ ~InWindow)
          => /\ last.result \in {"closed", "serverError"}
             /\ last.exception \in MwsFaults
    /\ (last.op = "registerTeam" /\ InWindow /\ Len(LiveRoster) < 12)
          => last.result # "closed"

\* A call at Monday 00:29 was rejected as closed.
C3_Witness ==
    /\ last.op = "registerTeam"
    /\ last.result = "closed"
    /\ LocalMinuteOfWeek = 29

----------------------------------------------------------------------------
(* C4: one UTR, email, phone and screenshot per week *)

UtrKey(text) == toLowerCase(trim(text))
EmailKey(text) == toLowerCase(trim(text))
PhoneKey(text) == trim(text)

\* The form repeats one of the four keys of a team of the roster.
SharesKey(form, teams) ==
    \E i \in 1..Len(teams) :
        \/ UtrKey(teams[i].utrNumber) = UtrKey(form.utrNumber)
        \/ EmailKey(teams[i].contactEmail) = EmailKey(form.contactEmail)
        \/ PhoneKey(teams[i].contactPhone) = PhoneKey(form.contactPhone)
        \/ teams[i].screenshotHash = sha256(form.screenshot.bytes)

\* The form repeats the UTR, the email or the phone of a team of the roster.
SharesText(form, teams) ==
    \E i \in 1..Len(teams) :
        \/ UtrKey(teams[i].utrNumber) = UtrKey(form.utrNumber)
        \/ EmailKey(teams[i].contactEmail) = EmailKey(form.contactEmail)
        \/ PhoneKey(teams[i].contactPhone) = PhoneKey(form.contactPhone)

\* No two teams of the roster have a key in common.
KeysAreUnique(teams) ==
    \A i, j \in 1..Len(teams) :
        i # j => /\ UtrKey(teams[i].utrNumber) # UtrKey(teams[j].utrNumber)
                 /\ EmailKey(teams[i].contactEmail) # EmailKey(teams[j].contactEmail)
                 /\ PhoneKey(teams[i].contactPhone) # PhoneKey(teams[j].contactPhone)
                 /\ teams[i].screenshotHash # teams[j].screenshotHash

\* C4: a registerTeam call whose form repeats the normalised UTR, the
\* normalised email, the phone or the screenshot hash of a team of the week's
\* roster does not succeed and leaves the roster file as it was; and no two
\* teams of the roster share one of the four keys.
C4_KeysUniqueInTheWeek ==
    [][ /\ KeysAreUnique(LiveRoster')
        /\ (/\ last'.op = "registerTeam"
            /\ last'.form # NoRet
            /\ SharesKey(last'.form, WeekRoster))
              => /\ last'.result # "success"
                 /\ regFile' = regFile ]_vars

\* A screenshot of the roster came back with a new UTR, email and phone and
\* was turned away.
C4_Witness ==
    /\ last.op = "registerTeam"
    /\ last.result = "dupShot"
    /\ ~SharesText(last.form, LiveRoster)
    /\ SharesKey(last.form, LiveRoster)

----------------------------------------------------------------------------
(* C5: rollover *)

\* C5: when manageWeeklyState returns from its first call after a week
\* boundary with a non-empty roster of the earlier week on file, that roster
\* is in the archive under the date of its week's Monday, and the live
\* documents are those of the empty current week.
C5_RolloverArchivesAndResets ==
    [][ (/\ last'.op = "manageWeeklyState"
         /\ last'.result = "ok"
         /\ stateFile # Missing
         /\ regFile # Missing
         /\ Doc(stateFile).registrationWeekStart < CurrentWeekStart
         /\ Len(Doc(regFile).teams) > 0)
           => LET prior == Doc(regFile)
                  date == LocalDate(Doc(stateFile).registrationWeekStart)
              IN  /\ date \in DOMAIN archive'
                  /\ archive'[date] = prior
                  /\ Doc(regFile') = [registrationWeekStart |-> CurrentWeekStart,
                                      teams |-> <<>>]
                  /\ Doc(stateFile') = [registrationWeekStart |-> CurrentWeekStart,
                                        registeredTeamsCount |-> 0] ]_vars

----------------------------------------------------------------------------
(* C6: the transaction date *)

\* C6: registerTeam succeeds only on a verdict of a match that carries a
\* transaction date not before the current week's Monday 00:00; a matching
\* verdict with no date or with an earlier date is rejected and no team is
\* added, also when none of the form's four keys is in the roster.
C6_TransactionDateOfThisWeek ==
    [][ last'.op = "registerTeam"
          => /\ last'.result = "success"
                  => /\ last'.adapter = "returned"
                     /\ last'.verdict.isUtrMatch
                     /\ last'.verdict.transactionDate # <<>>
                     /\ last'.verdict.transactionDate[1] >= CurrentWeekStart
             /\ (/\ last'.verdict # NoRet
                 /\ last'.verdict.isUtrMatch
                 /\ \/ last'.verdict.transactionDate = <<>>
                    \/ last'.verdict.transactionDate[1] < CurrentWeekStart)
                  => /\ last'.result \in {"noDate", "staleDate"}
                     /\ LiveRoster' = WeekRoster ]_vars

\* A payment of the week before was turned away though its four keys were new.
C6_Witness ==
    /\ last.op = "registerTeam"
    /\ last.result = "staleDate"
    /\ last.verdict.transactionDate # <<>>
    /\ ~SharesKey(last.form, LiveRoster)

----------------------------------------------------------------------------
(* C7: the winners history *)

WinnersHistory == IF winnersFile = Missing THEN <<>> ELSE Doc(winnersFile)

\* C7: the winners history has at most one record per weekStart; a call of
\* processAndEmailWinners that returns puts its record at the head, removes
\* the earlier record of that week and keeps the other records in their
\* order; a call that does not return leaves the history as it was.
C7_OneWinnerRecordPerWeek ==
    [][ /\ \A i, j \in 1..Len(WinnersHistory') :
              i # j => WinnersHistory'[i].weekStart # WinnersHistory'[j].weekStart
        /\ (last'.op = "processAndEmailWinners" /\ last'.result = "ok")
              => LET OtherWeek(w) == w.weekStart # last'.ret.weekStart
                 IN  /\ last'.ret.weekStart = CurrentWeekStart
                     /\ WinnersHistory' =
                            <<last'.ret>> \o SelectSeq(WinnersHistory, OtherWeek)
        /\ (last'.op # "processAndEmailWinners" \/ last'.result # "ok")
              => winnersFile' = winnersFile ]_vars

\* The winners of a week were announced again, with another result, while the
\* history held the record of an earlier week.
C7_Witness ==
    /\ last.op = "processAndEmailWinners"
    /\ last.result = "ok"
    /\ Len(WinnersHistory) = 2
    /\ \E i \in 1..Len(last.history) :
          /\ last.history[i].weekStart = last.ret.weekStart
          /\ last.history[i] # last.ret

----------------------------------------------------------------------------
(* C8: registerTeam does not throw *)

\* C8: registerTeam returns to its caller whatever step throws: a failed read
\* or write of a document, a failed hash; the result is then a failure with
\* an error message.
C8_RegisterTeamNeverThrows ==
    last.op = "registerTeam"
        => /\ last.result # "threw"
           /\ last.exception # "none"
                 => /\ last.result = "serverError"
                    /\ last.error # ""

\* The write of the state threw after the form was read, and the call
\* returned a failure.
C8_Witness ==
    /\ last.op = "registerTeam"
    /\ last.result = "serverError"
    /\ last.exception = "writeState"
    /\ last.form # NoRet

----------------------------------------------------------------------------
(* C9: the adapter fails *)

\* C9: when the verification adapter throws, registerTeam returns the failure
\* "service unavailable", adds no team, uploads nothing and sends no mail.
C9_AdapterFailureIsNoMatch ==
    [][ (last'.op = "registerTeam" /\ last'.adapter = "threw")
          => /\ last'.result = "verifyFailed"
             /\ last'.error = Unavailable
             /\ LiveRoster' = WeekRoster
             /\ last'.upload = "none"
             /\ last'.adminMail = "none"
             /\ last'.userMail = "none" ]_vars

\* The adapter threw on a valid form while the roster held a team.
C9_Witness ==
    /\ last.op = "registerTeam"
    /\ last.adapter = "threw"
    /\ Len(LiveRoster) > 0

----------------------------------------------------------------------------
(* C10: upload and mails are best effort *)

\* The steps of registerTeam that are not best effort.
CriticalSteps == (MwsFaults \ {"none"}) \cup {"hash", "writeRoster", "writeState"}

\* C10: a registerTeam call in the window, with a free slot, a valid form, a
\* matching verdict dated in the week and four unused keys, in which no read,
\* write or hash throws, succeeds and appends the team to the roster, whether
\* or not the upload and the two mails fail.
C10_SideEffectsAreBestEffort ==
    [][ (/\ last'.op = "registerTeam"
         /\ InWindow
         /\ Len(WeekRoster) < 12
         /\ last'.form # NoRet
         /\ registrationSchema(last'.form) = "ok"
         /\ last'.verdict.isUtrMatch
         /\ last'.verdict.transactionDate # <<>>
         /\ last'.verdict.transactionDate[1] >= CurrentWeekStart
         /\ ~SharesKey(last'.form, WeekRoster)
         /\ last'.exception \notin CriticalSteps)
           => /\ last'.result = "success"
              /\ last'.upload \in {"ok", "failed"}
              /\ LiveRoster' = Append(WeekRoster, last'.ret)
              /\ last'.ret.utrNumber = last'.form.utrNumber
              /\ Doc(stateFile').registeredTeamsCount = Len(LiveRoster') ]_vars

\* A team was registered though the upload and both mails failed.
C10_Witness ==
    /\ last.op = "registerTeam"
    /\ last.result = "success"
    /\ last.upload = "failed"
    /\ last.adminMail = "failed"
    /\ last.userMail = "failed"

----------------------------------------------------------------------------
(* C11: winners are saved after both mails *)

\* C11: a call of processAndEmailWinners in which the mail to the first or to
\* the second team is not sent (the send fails, the mail configuration is
\* missing) throws and leaves the winners history as it was; the history is
\* written only by a call whose two mails were sent.
C11_WinnersSavedAfterBothMails ==
    [][ /\ (/\ last'.op = "processAndEmailWinners"
            /\ \E i \in 1..Len(last'.winnerMails) : last'.winnerMails[i] # "sent")
              => /\ last'.result = "threw"
                 /\ winnersFile' = winnersFile
        /\ winnersFile' # winnersFile
              => /\ last'.op = "processAndEmailWinners"
                 /\ last'.winnerMails = <<"sent", "sent">> ]_vars

\* The first mail was sent, the second was not, and the call threw while the
\* history held a record.
C11_Witness ==
    /\ last.op = "processAndEmailWinners"
    /\ last.result = "threw"
    /\ last.winnerMails \in {<<"sent", "failed">>, <<"sent", "unconfigured">>}
    /\ Len(WinnersHistory) > 0

----------------------------------------------------------------------------
(* C12: manageWeeklyState twice *)

\* A second call of manageWeeklyState at the instant of the last call, on the
\* files that call left.
SecondCall == manageWeeklyState(stateFile, regFile, archive, now, tz, "none")

\* C12: after a call of manageWeeklyState that returned, a second call at the
\* same instant returns the same state and roster and leaves the state file,
\* the roster file and the archive as the first call left them.
C12_ManageWeeklyStateIsIdempotent ==
    (last.op = "manageWeeklyState" /\ last.result = "ok")
        => /\ ~SecondCall.threw
           /\ SecondCall.state = last.ret.state
           /\ SecondCall.weeklyData = last.ret.weeklyData
           /\ SecondCall.sf = stateFile
           /\ SecondCall.rf = regFile
           /\ SecondCall.ar = archive

\* The call archived the roster of the week before and reset the documents.
C12_Witness ==
    /\ last.op = "manageWeeklyState"
    /\ last.result = "ok"
    /\ last.ret.weeklyData = [registrationWeekStart |-> CurrentWeekStart, teams |-> <<>>]
    /\ \E d \in DOMAIN archive :
          /\ archive[d].registrationWeekStart = CurrentWeekStart - MinutesPerWeek
          /\ Len(archive[d].teams) > 0

----------------------------------------------------------------------------
(* C13: the order of the steps of registerTeam *)

\* The steps a call reached, from what it reports and what it wrote.
AdapterInvoked == last'.adapter # "none"
UploadAttempted == last'.upload # "none"
RosterWritten == regFile' # regFile /\ Len(LiveRoster') = Len(WeekRoster) + 1
CounterWritten ==
    /\ stateFile' # stateFile
    /\ Doc(stateFile').registeredTeamsCount = Len(WeekRoster) + 1
MailsSent == last'.adminMail # "none" \/ last'.userMail # "none"

\* The checks of a call, from the files before it and the form and verdict
\* it read.
StatusIsOpen == InWindow /\ Len(WeekRoster) < 12
FormIsValid == last'.form # NoRet /\ registrationSchema(last'.form) = "ok"
PaymentIsVerified == last'.verdict # NoRet /\ last'.verdict.isUtrMatch
DateIsInWeek ==
    /\ last'.verdict.transactionDate # <<>>
    /\ last'.verdict.transactionDate[1] >= CurrentWeekStart
KeysAreNew == ~SharesKey(last'.form, WeekRoster)

\* C13: in a call of registerTeam the adapter is invoked only when the
\* registration is open and the form is valid; the upload is attempted only
\* after payment, date and duplicate checks have passed; the roster is written
\* only after the upload attempt; the mails are sent only after roster and
\* counter have been written; and a call that ends at a failing check has
\* taken none of the later steps.
C13_StepsInOrder ==
    [][ last'.op = "registerTeam"
          => /\ AdapterInvoked => (StatusIsOpen /\ FormIsValid)
             /\ UploadAttempted
                  => /\ AdapterInvoked
                     /\ PaymentIsVerified /\ DateIsInWeek /\ KeysAreNew
             /\ RosterWritten => UploadAttempted
             /\ CounterWritten => RosterWritten
             /\ MailsSent => (RosterWritten /\ CounterWritten)
             /\ last'.result \in {"closed", "invalid"} => ~AdapterInvoked
             /\ last'.result \in {"verifyFailed", "noDate", "staleDate",
                                  "dupUtr", "dupEmail", "dupPhone", "dupShot"}
                  => /\ AdapterInvoked
                     /\ ~UploadAttempted /\ ~RosterWritten /\ ~MailsSent ]_vars

\* The roster was written after the upload attempt, the write of the counter
\* threw and no mail was sent.
C13_Witness ==
    /\ last.op = "registerTeam"
    /\ last.exception = "writeState"
    /\ last.upload # "none"
    /\ last.adminMail = "none"
    /\ last.userMail = "none"
    /\ Len(LiveRoster) > 0

----------------------------------------------------------------------------
(* C14: two calls interleave *)

BothSucceeded == \A c \in CallIds : calls[c].pc = "done" /\ calls[c].result = "success"

\* Both calls got the same roster at their start: neither began after the
\* other had written.
ReadTheSameRoster == calls[1].read = calls[2].read

InLiveRoster(team) == \E i \in 1..Len(LiveRoster) : LiveRoster[i] = team

\* C14: when two registerTeam calls with distinct acceptable forms have both
\* read the roster before either wrote it and both have returned success, the
\* persisted roster is the roster they read plus the team of one of them only:
\* the update of the other is lost.
C14_LostUpdate ==
    (BothSucceeded /\ ReadTheSameRoster)
        => /\ Len(LiveRoster) = Len(calls[1].read.teams) + 1
           /\ InLiveRoster(calls[1].ret) # InLiveRoster(calls[2].ret)

\* Both calls returned success in the same week and the roster holds one team.
C14_Witness ==
    /\ BothSucceeded
    /\ ReadTheSameRoster
    /\ calls[1].ret.utrNumber # calls[2].ret.utrNumber
    /\ calls[1].ret.registrationTime = calls[2].ret.registrationTime
    /\ Len(LiveRoster) = 1
    /\ Doc(stateFile).registeredTeamsCount = 1

----------------------------------------------------------------------------
(* C15: no registration is lost *)

TeamsOf(roster) == {roster[i] : i \in 1..Len(roster)}

\* The teams in the live roster and in the archive files.
StoredTeams == TeamsOf(LiveRoster) \cup UNION {TeamsOf(archive[d].teams) : d \in DOMAIN archive}

\* C15: no call loses a registration: a team that registerTeam reports as
\* registered is in the live roster on return, and every team that is in the
\* live roster or in an archive file before a call is in the live roster or in
\* an archive file after it, also when a document is missing and when the
\* archive write fails.
C15_NoRegistrationLost ==
    [][ last'.op \in Calls
          => /\ StoredTeams \subseteq StoredTeams'
             /\ (last'.op = "registerTeam" /\ last'.result = "success")
                   => last'.ret \in TeamsOf(LiveRoster') ]_vars

----------------------------------------------------------------------------
(* C16: totalTeams of a winner record *)

\* C16: once the week of a winner record has been rolled over, the record's
\* totalTeams is the number of teams of the roster that was archived for
\* that week.
C16_TotalTeamsIsFinalCount ==
    \A i \in 1..Len(WinnersHistory) :
        \A d \in DOMAIN archive :
            archive[d].registrationWeekStart = WinnersHistory[i].weekStart
                => WinnersHistory[i].totalTeams = Len(archive[d].teams)

----------------------------------------------------------------------------
(* C17: a failed registerTeam changes nothing *)

\* Both documents are there and are of the current week: the next call does
\* not roll the week over.
DocumentsOfThisWeek ==
    /\ stateFile # Missing
    /\ regFile # Missing
    /\ Doc(stateFile).registrationWeekStart = CurrentWeekStart
    /\ Doc(regFile).registrationWeekStart = CurrentWeekStart

\* C17: a registerTeam call that finds the documents of the current week and
\* returns a failure, whatever its reason, leaves the roster file and the
\* state file as they were.
C17_FailedCallChangesNothing ==
    [][ (/\ last'.op = "registerTeam"
         /\ last'.result # "success"
         /\ DocumentsOfThisWeek)
           => /\ regFile' = regFile
              /\ stateFile' = stateFile ]_vars

----------------------------------------------------------------------------
(* C18: registrationTime and the window *)

\* The instant lies in [Monday 00:30, Sunday 22:00) of the week that starts
\* at weekStart.
InWindowOfWeek(t, weekStart) ==
    /\ t >= weekStart + 30
    /\ t < weekStart + (6 * 24 + 22) * 60

\* C18: while the clock advances between the steps of registerTeam, every
\* team of the live roster has a registrationTime inside the window of the
\* week the roster names, and the roster names the current week whenever it
\* is written.
C18_RegisteredInsideTheWindow ==
    [][ /\ regFile' # Missing
           => \A i \in 1..Len(LiveRoster') :
                 InWindowOfWeek(LiveRoster'[i].registrationTime,
                                Doc(regFile').registrationWeekStart)
        /\ (regFile' # regFile /\ regFile' # Missing)
           => Doc(regFile').registrationWeekStart = CurrentWeekStart' ]_vars

====
